---- MODULE Spec2Model ----
(***************************************************************************)
(* Model of streamlit_app.py: the GES (Good Environmental Status) mapping  *)
(* tool.  Rasters are functions from a finite set of pixels to exact       *)
(* rationals (or Masked); Earth Engine image arithmetic is modelled        *)
(* pixel-wise.  The module holds five specifications over one set of       *)
(* variables:                                                              *)
(*   SpecGes      get_ges on one year's composites                         *)
(*   SpecChange   get_ges twice, the difference, the classification        *)
(*   SpecClassify process_and_display on an arbitrary raster               *)
(*   SpecErr      the except clause of get_ges                             *)
(*   Spec         the "Run Analysis" handler, the widgets and the exports  *)
(***************************************************************************)
EXTENDS Integers, Sequences, FiniteSets, TLC

\* ------------------------------------------------------------------------
\* Bounds of the model
\* ------------------------------------------------------------------------
NPix == 3

MaxMsgLen == 3

MaxRuns == 2

Pixels == 1..NPix

\* ------------------------------------------------------------------------
\* Exact rational arithmetic: a number is <<numerator, denominator>> with a
\* positive denominator, kept in lowest terms.
\* ------------------------------------------------------------------------
Abs(x) == IF x < 0 THEN -x ELSE x

RECURSIVE GCD(_, _)
GCD(a, b) == IF b = 0 THEN a ELSE GCD(b, a % b)

Rat(n, d) == LET g == GCD(Abs(n), d) IN <<n \div g, d \div g>>

Num(n) == <<n, 1>>

RLe(a, b) == a[1] * b[2] <= b[1] * a[2]

RLt(a, b) == a[1] * b[2] < b[1] * a[2]

RAdd(a, b) == Rat(a[1] * b[2] + b[1] * a[2], a[2] * b[2])

RSub(a, b) == Rat(a[1] * b[2] - b[1] * a[2], a[2] * b[2])

RMul(a, b) == Rat(a[1] * b[1], a[2] * b[2])

\* ee.Image.divide / ee.Number division: "returning 0 for division by 0".
RDiv(a, b) ==
    IF b[1] = 0 THEN Num(0)
    ELSE IF b[1] < 0 THEN Rat(-(a[1] * b[2]), a[2] * (-b[1]))
    ELSE Rat(a[1] * b[2], a[2] * b[1])

\* ------------------------------------------------------------------------
\* Images: a pixel is a rational or Masked (written as the pair with a zero
\* denominator, which no number has).  A binary operation is masked where
\* either operand is masked.
\* ------------------------------------------------------------------------
Masked == <<0, 0>>

Valid(img) == {p \in DOMAIN img : img[p] # Masked}

\* image (op) constant
subtractC(img, c) ==
    [p \in DOMAIN img |-> LET v == img[p] IN IF v = Masked THEN Masked ELSE RSub(v, c)]

divideC(img, c) ==
    [p \in DOMAIN img |-> LET v == img[p] IN IF v = Masked THEN Masked ELSE RDiv(v, c)]

multiplyC(img, c) ==
    [p \in DOMAIN img |-> LET v == img[p] IN IF v = Masked THEN Masked ELSE RMul(v, c)]

\* image (op) image
add(a, b) ==
    [p \in DOMAIN a |->
        LET v == a[p]
            w == b[p]
        IN  IF v = Masked \/ w = Masked THEN Masked ELSE RAdd(v, w)]

subtract(a, b) ==
    [p \in DOMAIN a |->
        LET v == a[p]
            w == b[p]
        IN  IF v = Masked \/ w = Masked THEN Masked ELSE RSub(v, w)]

\* ee.Reducer.minMax() over the valid pixels of the region
RegionMin(img) == CHOOSE x \in {img[p] : p \in Valid(img)} : \A p \in Valid(img) : RLe(x, img[p])

RegionMax(img) == CHOOSE x \in {img[p] : p \in Valid(img)} : \A p \in Valid(img) : RLe(img[p], x)

\* ------------------------------------------------------------------------
\* get_ges: the body after the two composites have been fetched.
\*   ndvi_median_raw : the NDVI median composite in raw product units
\*                     (Masked where every scene was masked)
\*   lst_mean        : the LST composite after unmask().focal_mean().clip()
\*                     (never masked inside the region)
\* ------------------------------------------------------------------------
NdviScale == <<1, 10000>>

ndvi_mean_of(ndvi_median_raw) ==
    [p \in DOMAIN ndvi_median_raw |->
        IF ndvi_median_raw[p] = Masked THEN Masked
        ELSE RMul(ndvi_median_raw[p], NdviScale)]

\* a variant that forgets to subtract the region minimum
ndvi_normal_no_offset(ndvi_mean) ==
    LET ndvi_min == RegionMin(ndvi_mean)
        ndvi_max == RegionMax(ndvi_mean)
    IN  multiplyC(divideC(ndvi_mean, RSub(ndvi_max, ndvi_min)), Num(100))

ndvi_normal_of(ndvi_mean) ==
    LET ndvi_min == RegionMin(ndvi_mean)
        ndvi_max == RegionMax(ndvi_mean)
    IN  multiplyC(divideC(subtractC(ndvi_mean, ndvi_min), RSub(ndvi_max, ndvi_min)), Num(100))

\* a variant that forgets the final subtract(100)
lst_normal_unshifted(lst_mean) ==
    LET lst_min == RegionMin(lst_mean)
        lst_max == RegionMax(lst_mean)
    IN  multiplyC(divideC(subtractC(lst_mean, lst_min), RSub(lst_max, lst_min)), Num(100))

lst_normal_of(lst_mean) ==
    LET lst_min == RegionMin(lst_mean)
        lst_max == RegionMax(lst_mean)
    IN  subtractC(multiplyC(divideC(subtractC(lst_mean, lst_min), RSub(lst_max, lst_min)),
                            Num(100)),
                  Num(100))

Half == <<1, 2>>

blend(ndvi_normal, lst_normal) == add(multiplyC(ndvi_normal, Half), multiplyC(lst_normal, Half))

get_ges(ndvi_median_raw, lst_mean) ==
    blend(ndvi_normal_of(ndvi_mean_of(ndvi_median_raw)), lst_normal_of(lst_mean))

\* ------------------------------------------------------------------------
\* ges_params and the class masks of process_and_display.  An upper bound of
\* Inf stands for float('inf').
\* ------------------------------------------------------------------------
Inf == "inf"

ges_params ==
    << [name |-> "Very Severe",           lower |-> Num(-100), upper |-> Num(-25)],
       [name |-> "Severe",                lower |-> Num(-25),  upper |-> Num(-5)],
       [name |-> "No Change",             lower |-> Num(-5),   upper |-> Num(5)],
       [name |-> "Good Envionmental",     lower |-> Num(5),    upper |-> Num(25)],
       [name |-> "Excellent improvement", lower |-> Num(25),   upper |-> Inf] >>

Classes == DOMAIN ges_params

\* a variant whose intervals are closed above: lte(upper) for lt(upper)
class_mask_closed(v, lower, upper) ==
    IF upper = Inf THEN RLe(lower, v) ELSE RLe(lower, v) /\ RLe(v, upper)

\* class_mask at one pixel value: gte(lower), or gte(lower).And(lt(upper))
class_mask(v, lower, upper) ==
    IF upper = Inf THEN RLe(lower, v) ELSE RLe(lower, v) /\ RLt(v, upper)

\* updateMask(class_mask).reduceRegion(ee.Reducer.count()): the valid pixels
\* of the image that the class mask keeps
class_count(image, c) ==
    Cardinality({p \in Valid(image) :
                    class_mask(image[p], ges_params[c].lower, ges_params[c].upper)})

compute_class_counts(image) == [c \in Classes |-> class_count(image, c)]

\* ------------------------------------------------------------------------
\* State
\* ------------------------------------------------------------------------
VARIABLES
    \* get_ges on one year (SpecGes)
    ndvi_median_raw, lst_mean, ndvi_normal, lst_normal, GES, ges_pc,
    \* the change pipeline (SpecChange, SpecClassify)
    GES_first, GES_last, GES_diff, nondegenerate, class_counts, chg_pc,
    \* the except clause of get_ges (SpecErr)
    exc_in, exc_out,
    \* the script, its widgets and the "Run Analysis" handler (Spec)
    start_year, end_year, rejected, button, pc, run, trace, errors, chart,
    disk, exported, offered

gesVars == <<ndvi_median_raw, lst_mean, ndvi_normal, lst_normal, GES, ges_pc>>

chgVars == <<GES_first, GES_last, GES_diff, nondegenerate, class_counts, chg_pc>>

errVars == <<exc_in, exc_out>>

runVars ==
    <<start_year, end_year, rejected, button, pc, run, trace, errors, chart,
      disk, exported, offered>>

vars == <<gesVars, chgVars, errVars, runVars>>

None == "none"

GesIdle ==
    /\ ndvi_median_raw = None /\ lst_mean = None /\ ndvi_normal = None
    /\ lst_normal = None /\ GES = None /\ ges_pc = "unused"

ChgIdle ==
    /\ GES_first = None /\ GES_last = None /\ GES_diff = None
    /\ nondegenerate = None /\ class_counts = None /\ chg_pc = "unused"

ErrIdle == exc_in = None /\ exc_out = None

RunIdle ==
    /\ start_year = None /\ end_year = None /\ rejected = None /\ button = None
    /\ pc = "unused" /\ run = None /\ trace = None /\ errors = None
    /\ chart = None /\ disk = None /\ exported = None /\ offered = None

\* ------------------------------------------------------------------------
\* SpecGes: get_ges applied to every pair of composites over the region
\* ------------------------------------------------------------------------
\* raw NDVI values of the product (scaled by 0.0001 in get_ges)
NdviRawVals == {Num(2000), Num(3000), Num(6000)}

\* land-surface temperatures in degrees Celsius
LstVals == {Num(20), Num(22), Num(30)}

\* the NDVI composite clipped to the region: at least one valid pixel
NdviComposites ==
    {img \in [Pixels -> NdviRawVals \cup {Masked}] : Valid(img) # {}}

\* the LST composite after unmask(): valid at every pixel of the region
LstComposites == [Pixels -> LstVals]

InitGes ==
    /\ ndvi_median_raw \in NdviComposites
    /\ lst_mean \in LstComposites
    /\ ndvi_normal = None /\ lst_normal = None /\ GES = None
    /\ ges_pc = "fetched"
    /\ ChgIdle /\ ErrIdle /\ RunIdle

GetGes ==
    /\ ges_pc = "fetched"
    /\ ndvi_normal' = ndvi_normal_of(ndvi_mean_of(ndvi_median_raw))
    /\ lst_normal' = lst_normal_of(lst_mean)
    /\ GES' = get_ges(ndvi_median_raw, lst_mean)
    /\ ges_pc' = "returned"
    /\ UNCHANGED <<ndvi_median_raw, lst_mean, chgVars, errVars, runVars>>

NextGes == GetGes

SpecGes == InitGes /\ [][NextGes]_vars

\* ------------------------------------------------------------------------
\* SpecChange: the data path of the "Run Analysis" handler.  Each call of
\* get_ges draws the year's composites; the handler keeps only the rasters
\* get_ges returns.
\* ------------------------------------------------------------------------
\* the region maximum is strictly greater than the region minimum for both
\* composites of a year
NonDegenerate(ndvi_raw, lst) ==
    /\ RLt(RegionMin(ndvi_raw), RegionMax(ndvi_raw))
    /\ RLt(RegionMin(lst), RegionMax(lst))

\* the composites a year of the pipeline draws: every pixel of the NDVI
\* composite is valid here (masked pixels are covered by SpecGes and
\* SpecClassify)
ChangeNdviComposites == [Pixels -> {Num(2000), Num(6000)}]

\* every raster get_ges can return over the region, with the ghost flag
GesResults ==
    {[GES |-> get_ges(n, l), nondeg |-> NonDegenerate(n, l)] :
        n \in ChangeNdviComposites, l \in LstComposites}

InitChange ==
    /\ GES_first = None /\ GES_last = None /\ GES_diff = None
    /\ nondegenerate = <<FALSE, FALSE>>
    /\ class_counts = None
    /\ chg_pc = "start"
    /\ GesIdle /\ ErrIdle /\ RunIdle

\* GES_first = get_ges(intersection, start_year)
GetGesFirst ==
    /\ chg_pc = "start"
    /\ \E r \in GesResults :
        /\ GES_first' = r.GES
        /\ nondegenerate' = <<r.nondeg, FALSE>>
    /\ chg_pc' = "first"
    /\ UNCHANGED <<GES_last, GES_diff, class_counts, gesVars, errVars, runVars>>

\* GES_last = get_ges(intersection, end_year)
GetGesLast ==
    /\ chg_pc = "first"
    /\ \E r \in GesResults :
        /\ GES_last' = r.GES
        /\ nondegenerate' = <<nondegenerate[1], r.nondeg>>
    /\ chg_pc' = "last"
    /\ UNCHANGED <<GES_first, GES_diff, class_counts, gesVars, errVars, runVars>>

\* GES_diff = GES_last.subtract(GES_first)
Subtract ==
    /\ chg_pc = "last"
    /\ GES_diff' = subtract(GES_last, GES_first)
    /\ chg_pc' = "diff"
    /\ UNCHANGED <<GES_first, GES_last, nondegenerate, class_counts, gesVars, errVars, runVars>>

\* process_and_display(GES_diff): the five class counts
ProcessAndDisplay ==
    /\ chg_pc = "diff"
    /\ class_counts' = compute_class_counts(GES_diff)
    /\ chg_pc' = "classified"
    /\ UNCHANGED <<GES_first, GES_last, GES_diff, nondegenerate, gesVars, errVars, runVars>>

NextChange == GetGesFirst \/ GetGesLast \/ Subtract \/ ProcessAndDisplay

SpecChange == InitChange /\ [][NextChange]_vars

\* ------------------------------------------------------------------------
\* SpecClassify: process_and_display applied to an arbitrary raster
\* ------------------------------------------------------------------------
DiffVals ==
    {Num(-101), Num(-100), <<-201, 2>>, Num(-25), Num(-5), Num(0), Num(5), Num(25),
     Num(100), Num(101)}

InitClassify ==
    /\ GES_first = None /\ GES_last = None
    /\ GES_diff \in [Pixels -> DiffVals \cup {Masked}]
    /\ nondegenerate = None
    /\ class_counts = None
    /\ chg_pc = "diff"
    /\ GesIdle /\ ErrIdle /\ RunIdle

NextClassify == ProcessAndDisplay

SpecClassify == InitClassify /\ [][NextClassify]_vars

\* ------------------------------------------------------------------------
\* Properties of get_ges (SpecGes)
\* ------------------------------------------------------------------------
InRange(v, lo, hi) == RLe(Num(lo), v) /\ RLe(v, Num(hi))

ndvi_mean == ndvi_mean_of(ndvi_median_raw)

GesWithin100 == \A p \in Valid(GES) : InRange(GES[p], -100, 100)

AtNdviMinIsZero ==
    \A p \in Valid(ndvi_mean) :
        ndvi_mean[p] = RegionMin(ndvi_mean) => ndvi_normal[p] = Num(0)

AtNdviMaxIsHundred ==
    \A p \in Valid(ndvi_mean) :
        ndvi_mean[p] = RegionMax(ndvi_mean) => ndvi_normal[p] = Num(100)

\* C8 as stated: every pixel of a raster computed by get_ges lies in
\* [-100, 100]; a pixel at the region's NDVI minimum has normalized NDVI 0
\* and a pixel at the region's NDVI maximum has normalized NDVI 100.
C8_AsStated ==
    ges_pc = "returned" => GesWithin100 /\ AtNdviMinIsZero /\ AtNdviMaxIsHundred

\* C8 amended: every pixel of a raster computed by get_ges lies in
\* [-100, 100]; a pixel at the region's NDVI minimum has normalized NDVI 0;
\* and, when the region's NDVI maximum is strictly greater than its minimum,
\* a pixel at the maximum has normalized NDVI 100.
C8_NormalizationBounds ==
    ges_pc = "returned" =>
        /\ GesWithin100
        /\ AtNdviMinIsZero
        /\ RLt(RegionMin(ndvi_mean), RegionMax(ndvi_mean)) => AtNdviMaxIsHundred

\* get_ges has returned for a region whose NDVI minimum and maximum differ
\* and are not zero, with a third pixel strictly between them
C8_Witness ==
    /\ ges_pc = "returned"
    /\ \E p, q, r \in Valid(ndvi_mean) :
        /\ ndvi_mean[p] = RegionMin(ndvi_mean) /\ ndvi_normal[p] = Num(0)
        /\ ndvi_mean[q] = RegionMax(ndvi_mean) /\ ndvi_normal[q] = Num(100)
        /\ RLt(ndvi_mean[p], ndvi_mean[r]) /\ RLt(ndvi_mean[r], ndvi_mean[q])
        /\ ndvi_normal[r] = Num(25)

\* C9 as stated: of two pixels of the same region and year with equal NDVI
\* composite, the one with the lower land-surface temperature gets a GES
\* value greater than or equal to that of the one with the higher
\* temperature.
C9_LowerTemperatureScoresHigher ==
    ges_pc = "returned" =>
        \A p, q \in Valid(GES) :
            (ndvi_mean[p] = ndvi_mean[q] /\ RLt(lst_mean[p], lst_mean[q]))
                => RLe(GES[q], GES[p])

\* ------------------------------------------------------------------------
\* Properties of the classification (SpecClassify, SpecChange)
\* ------------------------------------------------------------------------
ClassesOf(v) ==
    {c \in Classes : class_mask(v, ges_params[c].lower, ges_params[c].upper)}

RECURSIVE SumTo(_, _)
SumTo(cc, n) == IF n = 0 THEN 0 ELSE cc[n] + SumTo(cc, n - 1)

SumCounts(cc) == SumTo(cc, Len(ges_params))

\* C1 as stated: every pixel value falls into exactly one of the five
\* classes and the five class counts add up to the number of valid pixels.
C1_AsStated ==
    chg_pc = "classified" =>
        /\ \A p \in Valid(GES_diff) : Cardinality(ClassesOf(GES_diff[p])) = 1
        /\ SumCounts(class_counts) = Cardinality(Valid(GES_diff))

AtLeastLowest(img) == {p \in Valid(img) : RLe(ges_params[1].lower, img[p])}

\* C1 amended: every pixel value greater than or equal to -100 falls into
\* exactly one of the five classes, a value below -100 falls into none, and
\* the five class counts add up to the number of valid pixels whose value is
\* at least -100.
C1_PartitionFromLowestBound ==
    chg_pc = "classified" =>
        /\ \A p \in AtLeastLowest(GES_diff) : Cardinality(ClassesOf(GES_diff[p])) = 1
        /\ \A p \in Valid(GES_diff) \ AtLeastLowest(GES_diff) : ClassesOf(GES_diff[p]) = {}
        /\ SumCounts(class_counts) = Cardinality(AtLeastLowest(GES_diff))

\* a classified raster with a masked pixel, a pixel on a class boundary and
\* a pixel below the lowest bound
C1_Witness ==
    /\ chg_pc = "classified"
    /\ \E p, q, r \in Pixels :
        /\ GES_diff[p] = Masked
        /\ GES_diff[q] = Num(-25)
        /\ GES_diff[r] = Num(-101)
    /\ class_counts[2] = 1
    /\ SumCounts(class_counts) = 1

\* C10: whenever the region maximum is strictly greater than the region
\* minimum for both composites, every pixel of a raster returned by get_ges
\* lies in [-50, 50]; hence every pixel of the diff raster lies in
\* [-100, 100] and is counted in exactly one of the five classes.
C10_DiffWithinClasses ==
    /\ (chg_pc \in {"first", "last", "diff", "classified"} /\ nondegenerate[1])
        => \A p \in Valid(GES_first) : InRange(GES_first[p], -50, 50)
    /\ (chg_pc \in {"last", "diff", "classified"} /\ nondegenerate[2])
        => \A p \in Valid(GES_last) : InRange(GES_last[p], -50, 50)
    /\ (chg_pc \in {"diff", "classified"} /\ nondegenerate[1] /\ nondegenerate[2])
        => \A p \in Valid(GES_diff) :
                /\ InRange(GES_diff[p], -100, 100)
                /\ Cardinality(ClassesOf(GES_diff[p])) = 1
    /\ (chg_pc = "classified" /\ nondegenerate[1] /\ nondegenerate[2])
        => SumCounts(class_counts) = Cardinality(Valid(GES_diff))

\* a classified diff of two non-degenerate years with a pixel at the lowest
\* bound -100 and a pixel in an inner class
C10_Witness ==
    /\ chg_pc = "classified"
    /\ nondegenerate[1] /\ nondegenerate[2]
    /\ \E p, q \in Pixels :
        /\ GES_diff[p] = Num(-100)
        /\ GES_diff[q] = Num(10)
    /\ class_counts[1] >= 1
    /\ class_counts[4] >= 1

\* ------------------------------------------------------------------------
\* SpecErr: the except clause of get_ges.  An error message is a sequence of
\* words; str.lower() maps each word to lower case and the operator "in" is
\* the search for a contiguous run of words.
\* ------------------------------------------------------------------------
Words == {"Out", "of", "Memory", "memory", "Timeout", "failed"}

LowerWord ==
    [w \in Words |->
        CASE w = "Out" -> "out"
          [] w = "Memory" -> "memory"
          [] w = "Timeout" -> "timeout"
          [] OTHER -> w]

Messages == UNION {[1..n -> Words] : n \in 0..MaxMsgLen}

lower(message) == [i \in DOMAIN message |-> LowerWord[message[i]]]

\* needle in haystack
contains(haystack, needle) ==
    \E i \in 0..(Len(haystack) - Len(needle)) :
        \A j \in 1..Len(needle) : haystack[i + j] = needle[j]

MemoryGuidance == <<"The", "operation", "exceeded", "the", "memory", "limit">>

TimeoutGuidance == <<"The", "operation", "timed", "out">>

\* a variant that tests for "timeout" before "memory"
get_ges_except_timeout_first(e) ==
    LET error_message == e.message
    IN  IF contains(lower(error_message), <<"timeout">>)
        THEN [type |-> "TimeoutError", message |-> TimeoutGuidance]
        ELSE IF \/ contains(lower(error_message), <<"out", "of", "memory">>)
                \/ contains(lower(error_message), <<"memory">>)
        THEN [type |-> "MemoryError", message |-> MemoryGuidance]
        ELSE e

\* except ee.EEException as e: what is raised for the caught exception e
get_ges_except(e) ==
    LET error_message == e.message
    IN  IF \/ contains(lower(error_message), <<"out", "of", "memory">>)
           \/ contains(lower(error_message), <<"memory">>)
        THEN [type |-> "MemoryError", message |-> MemoryGuidance]
        ELSE IF contains(lower(error_message), <<"timeout">>)
        THEN [type |-> "TimeoutError", message |-> TimeoutGuidance]
        ELSE e

\* the exception that leaves get_ges when its body raises e: only an
\* ee.EEException enters the except clause
get_ges_raises(e) == IF e.type = "EEException" THEN get_ges_except(e) ELSE e

\* what the body of get_ges can raise
BodyExceptions == [type : {"EEException", "Exception"}, message : Messages]

NoExc == [type |-> "none", message |-> <<>>]

InitErr ==
    /\ exc_in \in BodyExceptions
    /\ exc_out = NoExc
    /\ GesIdle /\ ChgIdle /\ RunIdle

GetGesRaises ==
    /\ exc_out = NoExc
    /\ exc_out' = get_ges_raises(exc_in)
    /\ UNCHANGED <<exc_in, gesVars, chgVars, runVars>>

NextErr == GetGesRaises

SpecErr == InitErr /\ [][NextErr]_vars

SignalsMemory(e) == contains(lower(e.message), <<"memory">>)

SignalsTimeout(e) == contains(lower(e.message), <<"timeout">>)

\* C4 as stated: a backend error that signals a memory limit is re-signaled
\* as MemoryError, one that signals a timeout as TimeoutError, every other
\* backend error propagates unchanged, and each leads to exactly one of the
\* three outcomes.
C4_AsStated ==
    (exc_out # NoExc /\ exc_in.type = "EEException") =>
        /\ SignalsMemory(exc_in) => exc_out.type = "MemoryError"
        /\ SignalsTimeout(exc_in) => exc_out.type = "TimeoutError"
        /\ (~SignalsMemory(exc_in) /\ ~SignalsTimeout(exc_in)) => exc_out = exc_in
        /\ exc_out.type \in {"MemoryError", "TimeoutError"} \/ exc_out = exc_in

\* C4 amended: a backend error whose message mentions memory is re-signaled
\* as MemoryError (also when it mentions a timeout as well); one whose
\* message mentions a timeout and not memory is re-signaled as TimeoutError;
\* every other backend error propagates unchanged.
C4_MemoryTakesPrecedence ==
    (exc_out # NoExc /\ exc_in.type = "EEException") =>
        /\ SignalsMemory(exc_in) => exc_out.type = "MemoryError"
        /\ (SignalsTimeout(exc_in) /\ ~SignalsMemory(exc_in))
                => exc_out.type = "TimeoutError"
        /\ (~SignalsMemory(exc_in) /\ ~SignalsTimeout(exc_in)) => exc_out = exc_in
        /\ exc_out.type \in {"MemoryError", "TimeoutError"} \/ exc_out = exc_in

\* a backend error whose message mentions both a timeout and memory has been
\* re-signaled
C4_Witness ==
    /\ exc_out # NoExc
    /\ exc_in.type = "EEException"
    /\ SignalsTimeout(exc_in) /\ SignalsMemory(exc_in)
    /\ exc_out.type = "MemoryError"

\* ------------------------------------------------------------------------
\* Spec: the script.  Streamlit runs the script from the top on every
\* accepted widget change and on every click: ee.Initialize, then the
\* widgets, then, when the button was clicked, the "Run Analysis" handler.
\* ------------------------------------------------------------------------
MinYear == 2000

MaxYear == 2030

DefaultStartYear == 2002

DefaultEndYear == 2022

\* the years a user types into a number_input
YearInputs == {1999, 2000, 2030, 2031}

\* a variant without min_value / max_value
number_input_unchecked(current, typed) == typed

\* st.number_input(min_value=2000, max_value=2030): a typed value outside
\* the range is refused and the widget keeps its value
number_input(current, typed) ==
    IF MinYear <= typed /\ typed <= MaxYear THEN typed ELSE current

\* a variant that forms the diff before the end year's index is computed
HandlerSteps_subtract_early ==
    << "return_intersect", "get_ges_first", "subtract", "get_ges_last", "map",
       "process_and_display", "export_change", "export_first", "export_last" >>

\* the statements of the try block of the handler, in order
HandlerSteps ==
    << "return_intersect", "get_ges_first", "get_ges_last", "subtract", "map",
       "process_and_display", "export_change", "export_first", "export_last" >>

IndexOf(step) == CHOOSE i \in DOMAIN HandlerSteps : HandlerSteps[i] = step

NextPc(step) ==
    IF IndexOf(step) = Len(HandlerSteps) THEN "done" ELSE HandlerSteps[IndexOf(step) + 1]

Files == {"ges-change.tif", "ges-first.tif", "ges-last.tif"}

\* the filename each download_gee_image call of the handler passes
StepFile ==
    [step \in {"export_change", "export_first", "export_last"} |->
        CASE step = "export_change" -> "ges-change.tif"
          [] step = "export_first" -> "ges-first.tif"
          [] step = "export_last" -> "ges-last.tif"]

\* the exception types a statement of the handler can raise
ExcTypes == {"MemoryError", "TimeoutError", "EEException", "Exception"}

\* the except clauses of the handler: the text st.error shows
handler_except(type) ==
    CASE type = "MemoryError" -> "Memory Error"
      [] type = "TimeoutError" -> "Timeout Error"
      [] OTHER -> "An unexpected error occurred"

\* the except clauses of process_and_display
process_and_display_except(type) ==
    IF type \in {"MemoryError", "TimeoutError"} THEN "Error"
    ELSE "An unexpected error occurred"

NoFiles == [f \in Files |-> "absent"]

NotExported == [f \in Files |-> "not attempted"]

NotOffered == [f \in Files |-> "no"]

Init ==
    /\ start_year = DefaultStartYear
    /\ end_year = DefaultEndYear
    /\ rejected = FALSE
    /\ button = FALSE
    /\ pc = "idle"
    /\ run = 0
    /\ trace = <<>>
    /\ errors = <<>>
    /\ chart = FALSE
    /\ disk = NoFiles
    /\ exported = NotExported
    /\ offered = NotOffered
    /\ GesIdle /\ ChgIdle /\ ErrIdle

others == <<gesVars, chgVars, errVars>>

\* the user types a start year; an accepted value reruns the script
InputStartYear ==
    /\ pc \in {"idle", "done"}
    /\ \E typed \in YearInputs :
        /\ start_year' = number_input(start_year, typed)
        /\ IF start_year' = start_year /\ typed # start_year
           THEN rejected' = TRUE /\ UNCHANGED <<pc, button>>
           ELSE rejected' = rejected /\ pc' = "ee_initialize" /\ button' = FALSE
    /\ UNCHANGED <<end_year, run, trace, errors, chart, disk, exported, offered, others>>

\* the user types an end year
InputEndYear ==
    /\ pc \in {"idle", "done"}
    /\ \E typed \in YearInputs :
        /\ end_year' = number_input(end_year, typed)
        /\ IF end_year' = end_year /\ typed # end_year
           THEN rejected' = TRUE /\ UNCHANGED <<pc, button>>
           ELSE rejected' = rejected /\ pc' = "ee_initialize" /\ button' = FALSE
    /\ UNCHANGED <<start_year, run, trace, errors, chart, disk, exported, offered, others>>

\* the user clicks "Run Analysis"
ClickRun ==
    /\ pc \in {"idle", "done"}
    /\ run < MaxRuns
    /\ pc' = "ee_initialize"
    /\ button' = TRUE
    /\ UNCHANGED <<start_year, end_year, rejected, run, trace, errors, chart, disk,
                   exported, offered, others>>

\* the top of the script: ee.Initialize(credentials), the widgets, and the
\* test of st.button; the page is rebuilt from nothing
EeInitialize ==
    /\ pc = "ee_initialize"
    /\ trace' = <<>>
    /\ errors' = <<>>
    /\ chart' = FALSE
    /\ exported' = NotExported
    /\ offered' = NotOffered
    /\ IF button
       THEN run' = run + 1 /\ pc' = HandlerSteps[1]
       ELSE run' = run /\ pc' = "idle"
    /\ UNCHANGED <<start_year, end_year, rejected, button, disk, others>>

\* the statement at pc raised an exception of this type, which reaches the
\* except clauses of the handler
Abort(type) ==
    /\ errors' = Append(errors, [at |-> pc, text |-> handler_except(type)])
    /\ pc' = "done"

\* return_intersect, GES_last.subtract(GES_first), and the map
PlainStep ==
    /\ pc \in {"return_intersect", "subtract", "map"}
    /\ trace' = Append(trace, pc)
    /\ \/ pc' = NextPc(pc) /\ UNCHANGED errors
       \/ \E type \in ExcTypes : Abort(type)
    /\ UNCHANGED <<start_year, end_year, rejected, button, run, chart, disk, exported,
                   offered, others>>

\* get_ges(intersection, start_year) and get_ges(intersection, end_year)
GetGesStep ==
    /\ pc \in {"get_ges_first", "get_ges_last"}
    /\ trace' = Append(trace, pc)
    /\ \/ pc' = NextPc(pc) /\ UNCHANGED errors
       \/ \E e \in BodyExceptions : Abort(get_ges_raises(e).type)
    /\ UNCHANGED <<start_year, end_year, rejected, button, run, chart, disk, exported,
                   offered, others>>

\* process_and_display(GES_diff): the chart, or an error that the function
\* itself catches and reports; either way it returns
ProcessAndDisplayStep ==
    /\ pc = "process_and_display"
    /\ trace' = Append(trace, pc)
    /\ \/ chart' = TRUE /\ UNCHANGED errors
       \/ \E type \in ExcTypes :
            /\ errors' = Append(errors, [at |-> pc, text |-> process_and_display_except(type)])
            /\ UNCHANGED chart
    /\ pc' = NextPc(pc)
    /\ UNCHANGED <<start_year, end_year, rejected, button, run, disk, exported, offered,
                   others>>

\* What geemap.ee_export_image does:
\*   "written"            the file is written
\*   "raised"             an exception leaves the call
\*   "returned unwritten" the export failed and the call returned normally
\*                        (it reports a failed download by printing)
ExportOutcomes == {"written", "raised", "returned unwritten"}

\* a variant whose except clause raises the exception again
download_gee_image_reraises(step, outcome, left) ==
    LET filename == StepFile[step]
    IN  /\ exported' = [exported EXCEPT ![filename] = outcome]
        /\ disk' = [disk EXCEPT ![filename] = left]
        /\ IF outcome = "raised"
           THEN /\ Abort("Exception")
                /\ UNCHANGED offered
           ELSE IF left = "absent"
           THEN /\ errors' = Append(errors, [at |-> step, text |-> "Image export failed"])
                /\ UNCHANGED offered
                /\ pc' = NextPc(step)
           ELSE /\ offered' = [offered EXCEPT ![filename] = left]
                /\ UNCHANGED errors
                /\ pc' = NextPc(step)

\* download_gee_image(image, region, filename): `left` is what the call of
\* ee_export_image leaves on disk under filename
download_gee_image(step, outcome, left) ==
    LET filename == StepFile[step]
    IN  /\ exported' = [exported EXCEPT ![filename] = outcome]
        /\ disk' = [disk EXCEPT ![filename] = left]
        /\ IF outcome = "raised"
           THEN \* except Exception: st.error
                /\ errors' = Append(errors, [at |-> step, text |-> "Image export failed"])
                /\ UNCHANGED offered
           ELSE IF left = "absent"
           THEN \* st.success, then open(filename) raises FileNotFoundError
                /\ errors' = Append(errors, [at |-> step, text |-> "Image export failed"])
                /\ UNCHANGED offered
           ELSE \* st.success, then st.download_button over the file's bytes
                /\ offered' = [offered EXCEPT ![filename] = left]
                /\ UNCHANGED errors
        /\ pc' = NextPc(step)

\* what a call of ee_export_image can leave on disk under a filename
LeftOnDisk(before, outcome) ==
    CASE outcome = "written" -> {"complete"}
      [] outcome = "raised" -> {before, "partial"}
      [] outcome = "returned unwritten" -> {before}

ExportStep ==
    /\ pc \in DOMAIN StepFile
    /\ trace' = Append(trace, pc)
    /\ \E outcome \in ExportOutcomes :
        \E left \in LeftOnDisk(disk[StepFile[pc]], outcome) :
            download_gee_image(pc, outcome, left)
    /\ UNCHANGED <<start_year, end_year, rejected, button, run, chart, others>>

Next ==
    \/ InputStartYear
    \/ InputEndYear
    \/ ClickRun
    \/ EeInitialize
    \/ PlainStep
    \/ GetGesStep
    \/ ProcessAndDisplayStep
    \/ ExportStep

Spec == Init /\ [][Next]_vars

\* ------------------------------------------------------------------------
\* Properties of the run (Spec)
\* ------------------------------------------------------------------------
Performed(step) == \E i \in DOMAIN trace : trace[i] = step

\* step a was performed, and before every performance of step b
Precedes(a, b) ==
    \A i \in DOMAIN trace : trace[i] = b => \E j \in 1..(i - 1) : trace[j] = a

ExportSteps == DOMAIN StepFile

\* C2: the three exports of a run are independent: whatever the outcome of
\* each, once the first export has been attempted all three are attempted
\* by the end of the run, and every export that succeeded is offered for
\* download in that run.
C2_ExportsIndependent ==
    /\ (pc = "done" /\ \E step \in ExportSteps : Performed(step))
        => \A step \in ExportSteps : Performed(step)
    /\ \A step \in ExportSteps :
        (Performed(step) /\ exported[StepFile[step]] = "written")
            => offered[StepFile[step]] = "complete"

\* a finished run whose first export failed and whose other two exports
\* succeeded and are offered
C2_Witness ==
    /\ pc = "done"
    /\ exported["ges-change.tif"] = "raised"
    /\ offered["ges-change.tif"] = "no"
    /\ exported["ges-first.tif"] = "written" /\ offered["ges-first.tif"] = "complete"
    /\ exported["ges-last.tif"] = "written" /\ offered["ges-last.tif"] = "complete"

DiffDependents ==
    {"subtract", "map", "process_and_display", "export_change", "export_first",
     "export_last"}

\* C3: in every run, region resolution precedes both index computations,
\* and both index computations precede the diff and every step that depends
\* on it (map, classification, exports).
C3_StrictOrdering ==
    /\ Precedes("return_intersect", "get_ges_first")
    /\ Precedes("return_intersect", "get_ges_last")
    /\ \A d \in DiffDependents :
        Precedes("get_ges_first", d) /\ Precedes("get_ges_last", d)

\* a run that performed every step of the handler
C3_Witness ==
    /\ pc = "done"
    /\ \A i \in DOMAIN HandlerSteps : Performed(HandlerSteps[i])

\* C5 as stated: a download for a filename is offered in a run only if the
\* export of that file succeeded in that same run.
C5_OfferedOnlyIfExported ==
    \A f \in Files : offered[f] # "no" => exported[f] = "written"

AbortingSteps ==
    {"return_intersect", "get_ges_first", "get_ges_last", "map", "process_and_display"}

\* C6 as stated: once an error has been reported in region resolution, index
\* computation, map rendering or classification, no later step of the same
\* run is performed: the reporting step is the last one of the run, and
\* neither a chart nor a download is shown.
C6_ErrorAbortsRun ==
    \A i \in DOMAIN errors :
        errors[i].at \in AbortingSteps =>
            /\ trace[Len(trace)] = errors[i].at
            /\ ~chart
            /\ \A f \in Files : offered[f] = "no"

InYearRange(y) == MinYear <= y /\ y <= MaxYear

\* the positions of the script at which a call to the backend is issued
RemoteCallSteps ==
    {"ee_initialize", "return_intersect", "get_ges_first", "get_ges_last", "map",
     "process_and_display", "export_change", "export_first", "export_last"}

\* C7: no call to the backend is issued while the start year or the end
\* year is outside [2000, 2030].
C7_NoRemoteCallOutsideRange ==
    pc \in RemoteCallSteps => InYearRange(start_year) /\ InYearRange(end_year)

\* a year outside the range was typed and refused, and the run that
\* followed is issuing a call to the backend
C7_Witness ==
    /\ rejected
    /\ pc = "map"
    /\ InYearRange(start_year) /\ InYearRange(end_year)

====
